---------------------------- MODULE Spec2Model ----------------------------
(***************************************************************************)
(* docs-to-quiz: the text extractor (utils/fileProcessor and its variants) *)
(* and the QuizGenerator component's generateQuiz pipeline.                *)
(*                                                                         *)
(* A string is a sequence of atoms.  An atom is either one white-space     *)
(* character (" ", "\n", "\t") or a maximal run of non-white-space         *)
(* characters, so concatenation is \o and String.prototype.trim removes    *)
(* the white-space atoms at both ends.  File names are sequences of single *)
(* characters, so that toLowerCase and endsWith are computed.              *)
(***************************************************************************)
EXTENDS Integers, Sequences, FiniteSets, TLC

\* ------------------------------------------------------------------ bounds
MaxPages == 2
MaxText == 2
MaxFields == 2
MaxInFlight == 2

\* ----------------------------------------------------------------- strings
WhiteSpace == {" ", "\n", "\t"}

RECURSIVE TrimStart(_)
TrimStart(s) ==
  IF s = <<>> THEN s
  ELSE IF Head(s) \in WhiteSpace THEN TrimStart(Tail(s)) ELSE s

RECURSIVE TrimEnd(_)
TrimEnd(s) ==
  IF s = <<>> THEN s
  ELSE IF s[Len(s)] \in WhiteSpace THEN TrimEnd(SubSeq(s, 1, Len(s) - 1)) ELSE s

\* String.prototype.trim
Trim(s) == TrimEnd(TrimStart(s))

\* Array.prototype.join over strings
RECURSIVE Join(_, _)
Join(strs, sep) ==
  IF strs = <<>> THEN <<>>
  ELSE IF Len(strs) = 1 THEN strs[1]
  ELSE strs[1] \o sep \o Join(Tail(strs), sep)

LowerChar(c) ==
  CASE c = "P" -> "p" [] c = "D" -> "d" [] c = "F" -> "f" [] c = "T" -> "t"
    [] c = "X" -> "x" [] c = "O" -> "o" [] c = "C" -> "c" [] c = "A" -> "a"
    [] OTHER -> c

\* String.prototype.toLowerCase
ToLowerCase(name) == [i \in 1..Len(name) |-> LowerChar(name[i])]

\* String.prototype.endsWith
EndsWith(s, suffix) ==
  /\ Len(suffix) <= Len(s)
  /\ SubSeq(s, Len(s) - Len(suffix) + 1, Len(s)) = suffix

SeqsUpTo(S, n) == UNION {[1..k -> S] : k \in 0..n}


\* --------------------------------------------------------- the extractor
PdfMime == "application/pdf"
DocxMime == "application/vnd.openxmlformats-officedocument.wordprocessingml.document"
TxtMime == "text/plain"

DotPdf == <<".", "p", "d", "f">>
DotDocx == <<".", "d", "o", "c", "x">>
DotTxt == <<".", "t", "x", "t">>

\* The three versions of the extractor module the repository holds:
\* utils/fileProcessor.ts (pdf-lib), and the two pdfjs-dist ones.
Impls == {"pdflib", "pdfjs", "pdfjsWorker"}

ExtractFailedMessage ==
  "Failed to extract text from file. Please check the file format and try again."

UnsupportedMessage(fileType) == "Unsupported file type: " \o fileType

Ok(t) == [ok |-> TRUE, text |-> t, error |-> ""]
Err(m) == [ok |-> FALSE, text |-> <<>>, error |-> m]

\* The if / else-if chain of extractTextFromFile: the reader it calls
\* ("NONE": the final else, which throws).
SelectReaderDocxFirst(fileType, fileName) ==
  IF fileType = DocxMime \/ EndsWith(fileName, DotDocx) THEN "DOCX"
  ELSE IF fileType = PdfMime \/ EndsWith(fileName, DotPdf) THEN "PDF"
  ELSE IF fileType = TxtMime \/ EndsWith(fileName, DotTxt) THEN "TXT"
  ELSE "NONE"

SelectReader(fileType, fileName) ==
  IF fileType = PdfMime \/ EndsWith(fileName, DotPdf) THEN "PDF"
  ELSE IF fileType = DocxMime \/ EndsWith(fileName, DotDocx) THEN "DOCX"
  ELSE IF fileType = TxtMime \/ EndsWith(fileName, DotTxt) THEN "TXT"
  ELSE "NONE"

\* fields.forEach: PDFTextField values, each followed by a space; getText()
\* of a field without a value is undefined, which += renders as "undefined".
RECURSIVE FieldsText(_)
FieldsText(fields) ==
  IF fields = <<>> THEN <<>>
  ELSE LET f == Head(fields)
           own == IF f.isText
                  THEN (IF f.hasText THEN f.text ELSE <<"undefined">>) \o <<" ">>
                  ELSE <<>>
       IN own \o FieldsText(Tail(fields))

PlaceholderPageLimit == 5

Min(a, b) == IF a <= b THEN a ELSE b

\* The loop over the first pages: `Page ${i + 1} content (${width}x${height}). `
RECURSIVE PagePlaceholders(_, _, _)
PagePlaceholders(i, n, size) ==
  IF i >= n THEN <<>>
  ELSE << "Page", " ", ToString(i + 1), " ", "content", " ",
          "(" \o ToString(size.width) \o "x" \o ToString(size.height) \o ").", " " >>
       \o PagePlaceholders(i + 1, n, size)

NoReadableTextMessage ==
  << "PDF", " ", "content", " ", "extracted", " ", "successfully", " ", "but",
     " ", "no", " ", "readable", " ", "text", " ", "found." >>

\* extractTextFromPDF of utils/fileProcessor.ts (pdf-lib): form-field text,
\* or a description of the pages when there is none.
PdfLibText(file) ==
  LET fromFields == FieldsText(file.fields)
      pageCount == Len(file.pages)
      extractedText ==
        IF Trim(fromFields) = <<>>
        THEN << "PDF", " ", "document", " ", "with", " ", ToString(pageCount),
                " ", "pages.", " " >>
             \o PagePlaceholders(0, Min(pageCount, PlaceholderPageLimit), file.size)
        ELSE fromFields
  IN IF Trim(extractedText) # <<>> THEN Trim(extractedText)
     ELSE NoReadableTextMessage

\* The page loop of the pdfjs-dist versions: fullText += pageText + '\n'
RECURSIVE PdfJsFullText(_, _, _)
PdfJsFullText(pages, i, fullText) ==
  IF i > Len(pages) THEN fullText
  ELSE LET pageText == Join(pages[i], <<" ">>)
       IN PdfJsFullText(pages, i + 1, fullText \o pageText \o <<"\n">>)

PdfJsText(file) == Trim(PdfJsFullText(file.pages, 1, <<>>))

\* extractTextFromPDF: the document opens only when the bytes are a PDF.
extractTextFromPDF(file, impl) ==
  IF file.unreadable \/ file.kind # "pdf"
  THEN Err(CASE impl = "pdflib" ->
                  "Failed to process PDF file. Please try converting it to a text file first."
             [] impl = "pdfjs" ->
                  "Failed to process PDF file. The file may be corrupted or password-protected."
             [] OTHER -> "InvalidPDFException")
  ELSE Ok(IF impl = "pdflib" THEN PdfLibText(file) ELSE PdfJsText(file))

\* extractTextFromDOCX: mammoth.extractRawText(...).value.trim()
extractTextFromDOCX(file, impl) ==
  IF file.unreadable \/ file.kind # "docx"
  THEN Err(IF impl = "pdflib"
           THEN "Failed to process DOCX file. Please check the file format."
           ELSE "Could not find the body element: are you sure this is a docx file?")
  ELSE Ok(Trim(file.docText))

\* extractTextFromTXT: FileReader.readAsText decodes any bytes.
extractTextFromTXT(file) ==
  IF file.unreadable THEN Err("Failed to read text file")
  ELSE Ok(Trim(file.decoded))

RunReader(reader, file, impl) ==
  CASE reader = "PDF" -> extractTextFromPDF(file, impl)
    [] reader = "DOCX" -> extractTextFromDOCX(file, impl)
    [] OTHER -> extractTextFromTXT(file)

\* The catch block of extractTextFromFile: whatever was thrown inside the
\* try, the caller gets one and the same error.
CatchExtract(thrown) == Err(ExtractFailedMessage)

\* extractTextFromFile as the caller sees it: the settled promise.
extractTextFromFile(file, impl) ==
  LET reader == SelectReader(file.type, ToLowerCase(file.name))
  IN IF reader = "NONE" THEN CatchExtract(UnsupportedMessage(file.type))
     ELSE LET r == RunReader(reader, file, impl)
          IN IF r.ok THEN r ELSE CatchExtract(r.error)

\* ------------------------------------------------------------------ JSON
\* The reply text is a sequence of lexemes: punctuation, string and number
\* literals, null, and words of prose (which are no JSON).  A bracket in the
\* prose is the punctuation lexeme.
Punct(c) == [k |-> "punct", s |-> c, n |-> 0]
StrTok(x) == [k |-> "str", s |-> x, n |-> 0]
NumTok(i) == [k |-> "num", s |-> "", n |-> i]
NullTok == [k |-> "null", s |-> "", n |-> 0]
Word(w) == [k |-> "word", s |-> w, n |-> 0]

LBracket == Punct("[")
RBracket == Punct("]")

\* JavaScript values, one record shape for all of them.
JUndefined == [t |-> "undefined", s |-> "", n |-> 0, keys |-> <<>>, items |-> <<>>]
JNull == [t |-> "null", s |-> "", n |-> 0, keys |-> <<>>, items |-> <<>>]
JStr(x) == [t |-> "string", s |-> x, n |-> 0, keys |-> <<>>, items |-> <<>>]
JNum(i) == [t |-> "number", s |-> "", n |-> i, keys |-> <<>>, items |-> <<>>]
JArr(xs) == [t |-> "array", s |-> "", n |-> 0, keys |-> <<>>, items |-> xs]
JObj(ks, xs) == [t |-> "object", s |-> "", n |-> 0, keys |-> ks, items |-> xs]

ParseFail == [ok |-> FALSE, val |-> JUndefined, next |-> 0]
ParseOk(v, i) == [ok |-> TRUE, val |-> v, next |-> i]

IsPunct(toks, i, c) == i <= Len(toks) /\ toks[i] = Punct(c)

RECURSIVE ParseValue(_, _), ParseElements(_, _, _), ParseMembers(_, _, _, _)

\* value at lexeme i
ParseValue(toks, i) ==
  IF i > Len(toks) THEN ParseFail
  ELSE LET tok == toks[i]
       IN CASE tok.k = "str" -> ParseOk(JStr(tok.s), i + 1)
            [] tok.k = "num" -> ParseOk(JNum(tok.n), i + 1)
            [] tok.k = "null" -> ParseOk(JNull, i + 1)
            [] tok = LBracket ->
                 IF IsPunct(toks, i + 1, "]") THEN ParseOk(JArr(<<>>), i + 2)
                 ELSE ParseElements(toks, i + 1, <<>>)
            [] tok = Punct("{") ->
                 IF IsPunct(toks, i + 1, "}") THEN ParseOk(JObj(<<>>, <<>>), i + 2)
                 ELSE ParseMembers(toks, i + 1, <<>>, <<>>)
            [] OTHER -> ParseFail

\* element (, element)* ]
ParseElements(toks, i, acc) ==
  LET r == ParseValue(toks, i)
  IN IF ~r.ok THEN ParseFail
     ELSE IF IsPunct(toks, r.next, "]")
          THEN ParseOk(JArr(Append(acc, r.val)), r.next + 1)
     ELSE IF IsPunct(toks, r.next, ",")
          THEN ParseElements(toks, r.next + 1, Append(acc, r.val))
     ELSE ParseFail

\* string : value (, string : value)* }
ParseMembers(toks, i, ks, xs) ==
  IF ~(i <= Len(toks) /\ toks[i].k = "str" /\ IsPunct(toks, i + 1, ":"))
  THEN ParseFail
  ELSE LET r == ParseValue(toks, i + 2)
       IN IF ~r.ok THEN ParseFail
          ELSE IF IsPunct(toks, r.next, "}")
               THEN ParseOk(JObj(Append(ks, toks[i].s), Append(xs, r.val)), r.next + 1)
          ELSE IF IsPunct(toks, r.next, ",")
               THEN ParseMembers(toks, r.next + 1, Append(ks, toks[i].s),
                                 Append(xs, r.val))
          ELSE ParseFail

\* JSON.parse: the whole text is one value (ok = FALSE: SyntaxError)
JSONParse(toks) ==
  LET r == ParseValue(toks, 1)
  IN IF r.ok /\ r.next = Len(toks) + 1 THEN r ELSE ParseFail

\* q.key: the last member of that name, undefined when there is none or q is
\* no object.  (On null the access throws; the caller tests for null first.)
GetProp(q, key) ==
  LET at == {i \in 1..Len(q.keys) : q.keys[i] = key}
  IN IF q.t # "object" \/ at = {} THEN JUndefined
     ELSE q.items[CHOOSE i \in at : \A j \in at : j <= i]

TruthyUnlessNullish(v) == v.t \notin {"undefined", "null"}

\* ToBoolean
Truthy(v) ==
  CASE v.t = "undefined" -> FALSE
    [] v.t = "null" -> FALSE
    [] v.t = "string" -> v.s # ""
    [] v.t = "number" -> v.n # 0
    [] OTHER -> TRUE

\* generatedText.match(/\[[\s\S]*\]/): from the first "[" to the last "]"
\* after it; found = FALSE when match returns null.
FirstIndex(toks, tok) ==
  LET at == {i \in 1..Len(toks) : toks[i] = tok}
  IN IF at = {} THEN 0 ELSE CHOOSE i \in at : \A j \in at : i <= j

LastIndex(toks, tok) ==
  LET at == {i \in 1..Len(toks) : toks[i] = tok}
  IN IF at = {} THEN 0 ELSE CHOOSE i \in at : \A j \in at : j <= i

JsonMatchLazy(text) ==
  LET open == FirstIndex(text, LBracket)
      after == {i \in 1..Len(text) : i > open /\ text[i] = RBracket}
  IN IF open = 0 \/ after = {} THEN [found |-> FALSE, text |-> <<>>]
     ELSE [found |-> TRUE,
           text |-> SubSeq(text, open, CHOOSE i \in after : \A j \in after : i <= j)]

JsonMatch(text) ==
  LET open == FirstIndex(text, LBracket)
      close == LastIndex(text, RBracket)
  IN IF open = 0 \/ close < open THEN [found |-> FALSE, text |-> <<>>]
     ELSE [found |-> TRUE, text |-> SubSeq(text, open, close)]

\* q => q.question && Array.isArray(q.options) && q.options.length === 4 &&
\*      typeof q.correctAnswerIndex === 'number' && q.hint
QuestionFormatOk(q) ==
  /\ Truthy(GetProp(q, "question"))
  /\ GetProp(q, "options").t = "array"
  /\ Len(GetProp(q, "options").items) = 4
  /\ GetProp(q, "correctAnswerIndex").t = "number"
  /\ Truthy(GetProp(q, "hint"))

\* questions.every(...): "ok", "invalid" (some element fails the test), or
\* "TypeError" (the test reads a property of null before any element failed).
RECURSIVE EveryQuestion(_, _)
EveryQuestion(qs, i) ==
  IF i > Len(qs) THEN "ok"
  ELSE IF qs[i].t = "null" THEN "TypeError"
  ELSE IF ~QuestionFormatOk(qs[i]) THEN "invalid"
  ELSE EveryQuestion(qs, i + 1)

\* ------------------------------------------------ the response envelope
\* v?.key and v?.[0]
OptProp(v, key) == IF v.t \in {"undefined", "null"} THEN JUndefined ELSE GetProp(v, key)

OptFirst(v) ==
  IF v.t = "array" /\ Len(v.items) > 0 THEN v.items[1] ELSE JUndefined

\* data.candidates?.[0]?.content?.parts?.[0]?.text (data is not null here)
GeneratedText(data) ==
  OptProp(OptFirst(OptProp(OptProp(OptFirst(GetProp(data, "candidates")),
                                   "content"), "parts")), "text")

Failure(msg, steps) ==
  [error |-> msg, steps |-> steps, delivered |-> JUndefined, called |-> FALSE]

\* generateQuiz from `const data = await response.json()` to the end of the
\* try block: one synchronous run.  `reply` is the lexemes of the text field
\* when it is a non-empty string.
HandleData(data, reply) ==
  IF data.t = "null" THEN Failure("TypeError", <<"text">>)
  ELSE IF ~Truthy(GeneratedText(data))
  THEN Failure("No response from AI", <<"text">>)
  ELSE LET m == JsonMatch(reply)
       IN IF ~m.found
          THEN Failure("Invalid response format from AI", <<"text", "match">>)
          ELSE LET p == JSONParse(m.text)
               IN IF ~p.ok THEN Failure("SyntaxError", <<"text", "match", "parse">>)
                  ELSE IF p.val.t # "array" \/ Len(p.val.items) = 0
                  THEN Failure("No valid questions generated",
                               <<"text", "match", "parse", "array">>)
                  ELSE LET every == EveryQuestion(p.val.items, 1)
                           steps == <<"text", "match", "parse", "array", "format">>
                       IN IF every = "TypeError" THEN Failure("TypeError", steps)
                          ELSE IF every = "invalid"
                          THEN Failure("Generated questions have invalid format", steps)
                          ELSE [error |-> "", steps |-> Append(steps, "deliver"),
                                delivered |-> p.val, called |-> TRUE]

\* response.ok
ResponseOkBelow400(status) == status < 400

ResponseOk(status) == 200 <= status /\ status <= 299

\* `API Error: ${response.status} ${response.statusText}`
ApiErrorMessage(status) == "API Error: " \o ToString(status)

\* if (!extractedText.trim()) throw ...
IsEmptyTextNever(text) == FALSE

IsEmptyText(text) == Trim(text) = <<>>

\* ---------------------------------------------------------------- inputs
PageSize == [width |-> 612, height |-> 792]

PdfFile(type, name, pages, fields) ==
  [type |-> type, name |-> name, kind |-> "pdf", unreadable |-> FALSE,
   pages |-> pages, fields |-> fields, size |-> PageSize,
   docText |-> <<>>, decoded |-> <<"%PDF-1.7", "\n">>]

DocxFile(type, name, text) ==
  [type |-> type, name |-> name, kind |-> "docx", unreadable |-> FALSE,
   pages |-> <<>>, fields |-> <<>>, size |-> PageSize,
   docText |-> text, decoded |-> <<"PK">>]

TxtFile(type, name, text) ==
  [type |-> type, name |-> name, kind |-> "txt", unreadable |-> FALSE,
   pages |-> <<>>, fields |-> <<>>, size |-> PageSize,
   docText |-> <<>>, decoded |-> text]

\* selectedFile === null
NoFile == [TxtFile("", <<>>, <<>>) EXCEPT !.kind = "null"]

Unreadable(f) == [f EXCEPT !.unreadable = TRUE]

NamePdf == <<"a", ".", "p", "d", "f">>
NameDocx == <<"a", ".", "d", "o", "c", "x">>
NameTxt == <<"a", ".", "t", "x", "t">>
NamePng == <<"a", ".", "p", "n", "g">>

FileNames ==
  { NamePdf, NameDocx, NameTxt, NamePng,
    <<"A", ".", "P", "D", "F">>, <<"a", ".", "D", "o", "c", "X">>,
    <<"A", ".", "T", "X", "T">>, <<"p", "d", "f">>, <<"t", "x", "t">>,
    <<"a", ".", "p", "d", "f", ".", "t", "x", "t">>,
    <<"a", ".", "t", "x", "t", ".", "d", "o", "c", "x">>, <<>> }

FileTypes == {PdfMime, DocxMime, TxtMime, "", "image/png"}

Texts == SeqsUpTo({"a", " ", "\n"}, MaxText)

\* A page is the str of each of its text items.
PageChoices ==
  { <<>>, << <<"a">> >>, << <<"b">> >>, << <<>> >>, << <<"a">>, <<"b">> >>,
    << <<>>, <<"a">> >>, << <<"b">>, <<>> >>, << <<"a", " ", "b">> >> }
PageSeqs == SeqsUpTo(PageChoices, MaxPages)

FieldChoices ==
  { [isText |-> TRUE, hasText |-> TRUE, text |-> <<"f">>],
    [isText |-> TRUE, hasText |-> TRUE, text |-> <<" ">>],
    [isText |-> TRUE, hasText |-> FALSE, text |-> <<>>],
    [isText |-> FALSE, hasText |-> FALSE, text |-> <<>>] }
FieldSeqs == SeqsUpTo(FieldChoices, MaxFields)

\* Every (type, name) pair with a few contents, and every content under the
\* three pairs that name one format.
XFiles ==
  LET few == { PdfFile("", <<>>, << <<<<"a">>>> >>, <<>>),
               DocxFile("", <<>>, <<" ", "a">>),
               TxtFile("", <<>>, <<"a", "\n">>) }
      pairs == { [c EXCEPT !.type = t, !.name = n] :
                   c \in few, t \in FileTypes, n \in FileNames }
      pdfs == { PdfFile(PdfMime, NamePdf, p, <<>>) : p \in PageSeqs }
              \cup { PdfFile(PdfMime, NamePdf, << <<<<"a">>>> >>, f) : f \in FieldSeqs }
      docs == { DocxFile(DocxMime, NameDocx, t) : t \in Texts }
      txts == { TxtFile(TxtMime, NameTxt, t) : t \in Texts }
      all == pairs \cup pdfs \cup docs \cup txts
  IN all \cup { Unreadable(f) : f \in pairs }

\* The component's inputs: the files the user may pick, ...
UiFiles ==
  { TxtFile(TxtMime, NameTxt, <<"a">>),
    TxtFile(TxtMime, NameTxt, <<" ", "\n">>),
    PdfFile(PdfMime, NamePdf, <<>>, <<>>),
    Unreadable(PdfFile(PdfMime, NamePdf, <<>>, <<>>)),
    TxtFile("image/png", NamePng, <<"a">>) }

ApiKeys == { <<>>, <<" ">>, <<"AIza">> }

DefaultSettings == [questionCount |-> 10, difficulty |-> "medium", questionType |-> "mcq"]
SettingsChoices ==
  { DefaultSettings, [questionCount |-> 5, difficulty |-> "hard", questionType |-> "mcq"] }

\* ... the statuses the endpoint may answer with, ...
Statuses == {200, 299, 304, 404, 500}

\* ... and the bodies.  A question record as the remote model writes it:
Question(q, opts, idx, hint) ==
  JObj(<<"question", "options", "correctAnswerIndex", "hint">>,
       <<q, JArr(opts), idx, hint>>)

ABCD == <<JStr("A"), JStr("B"), JStr("C"), JStr("D")>>
Q1 == Question(JStr("Q1"), ABCD, JNum(1), JStr("H1"))
Q2 == Question(JStr("Q2"), ABCD, JNum(0), JStr("H2"))
Q3 == Question(JStr("Q3"), ABCD, JNum(3), JStr("H3"))
ThreeOptions == Question(JStr("Q4"), SubSeq(ABCD, 1, 3), JNum(1), JStr("H4"))
IndexSeven == Question(JStr("Q5"), ABCD, JNum(7), JStr("H5"))
IndexNegative == Question(JStr("Q6"), ABCD, JNum(-1), JStr("H6"))
IndexString == Question(JStr("Q7"), ABCD, JStr("1"), JStr("H7"))
NumberOptions == Question(JStr("Q8"), <<JNum(1), JNum(2), JNum(3), JNum(4)>>, JNum(2), JStr("H8"))
EmptyQuestion == Question(JStr(""), ABCD, JNum(1), JStr("H9"))
EmptyHint == Question(JStr("Q10"), ABCD, JNum(1), JStr(""))
NoHint == JObj(<<"question", "options", "correctAnswerIndex">>, <<JStr("Q11"), JArr(ABCD), JNum(1)>>)
HintTwice ==
  JObj(<<"hint", "question", "options", "correctAnswerIndex", "hint">>,
       <<JStr("H12"), JStr("Q12"), JArr(ABCD), JNum(2), JStr("")>>)

Batches ==
  { <<>>, <<Q1>>, <<Q1, Q2>>, <<Q2, Q1>>, <<Q3, Q1, Q2>>,
    <<ThreeOptions>>, <<Q1, ThreeOptions>>, <<ThreeOptions, Q2>>,
    <<IndexSeven>>, <<Q1, IndexSeven>>, <<IndexNegative>>, <<IndexString>>,
    <<NumberOptions>>, <<EmptyQuestion>>, <<EmptyHint>>, <<NoHint>>, <<HintTwice>>,
    <<JNull>>, <<Q1, JNull>>, <<ThreeOptions, JNull>>, <<JStr("A")>>, <<JNum(1)>>,
    <<JArr(<<Q1>>)>> }

\* JSON text of a value
RECURSIVE Serialize(_), SerializeItems(_), SerializeMembers(_, _)
Serialize(v) ==
  CASE v.t = "string" -> <<StrTok(v.s)>>
    [] v.t = "number" -> <<NumTok(v.n)>>
    [] v.t = "array" -> <<LBracket>> \o SerializeItems(v.items) \o <<RBracket>>
    [] v.t = "object" ->
         <<Punct("{")>> \o SerializeMembers(v.keys, v.items) \o <<Punct("}")>>
    [] OTHER -> <<NullTok>>

SerializeItems(xs) ==
  IF xs = <<>> THEN <<>>
  ELSE IF Len(xs) = 1 THEN Serialize(xs[1])
  ELSE Serialize(xs[1]) \o <<Punct(",")>> \o SerializeItems(Tail(xs))

SerializeMembers(ks, xs) ==
  IF ks = <<>> THEN <<>>
  ELSE <<StrTok(ks[1]), Punct(":")>> \o Serialize(xs[1])
       \o (IF Len(ks) = 1 THEN <<>>
           ELSE <<Punct(",")>> \o SerializeMembers(Tail(ks), Tail(xs)))

\* What the text holds between the prose: an array of records, or something
\* else (nothing, one record outside any array, text that is cut off).
ReplyBodies ==
  { Serialize(JArr(b)) : b \in Batches }
  \cup { <<>>, Serialize(Q1), <<LBracket>> \o Serialize(Q1),
         <<LBracket>> \o Serialize(Q1) \o <<Punct(","), RBracket>>,
         <<LBracket>> \o Serialize(Q1) \o Serialize(Q2) \o <<RBracket>>,
         <<LBracket, Word("question"), RBracket>> }

\* The prose around it, which may hold brackets of its own ("see [1]")
Prose ==
  { <<>>, <<Word("Sure")>>, <<LBracket>>, <<RBracket>>,
    <<Word("see"), LBracket, NumTok(1), RBracket>> }

ReplyParts == [pre : Prose, body : ReplyBodies, post : Prose]

ReplyText(parts) == parts.pre \o parts.body \o parts.post

NoParts == [pre |-> <<>>, body |-> <<>>, post |-> <<>>]

\* The envelope around a text field ("" or the reply)
Envelope(text) ==
  JObj(<<"candidates">>,
       <<JArr(<<JObj(<<"content">>,
                     <<JObj(<<"parts">>, <<JArr(<<JObj(<<"text">>, <<text>>)>>)>>)>>)>>)>>)

ReplyEnvelope == Envelope(JStr("reply"))

\* and the envelopes that hold no text
TextlessEnvelopes ==
  { JNull, JObj(<<>>, <<>>),
    JObj(<<"error">>, <<JStr("quota")>>),
    JObj(<<"candidates">>, <<JArr(<<>>)>>),
    JObj(<<"candidates">>, <<JArr(<<JObj(<<"finishReason">>, <<JStr("SAFETY")>>)>>)>>),
    JObj(<<"candidates">>, <<JArr(<<JObj(<<"content">>, <<JObj(<<>>, <<>>)>>)>>)>>),
    JObj(<<"candidates">>,
         <<JArr(<<JObj(<<"content">>, <<JObj(<<"parts">>, <<JArr(<<>>)>>)>>)>>)>>),
    JObj(<<"candidates">>,
         <<JArr(<<JObj(<<"content">>,
                       <<JObj(<<"parts">>, <<JArr(<<JObj(<<>>, <<>>)>>)>>)>>)>>)>>),
    Envelope(JStr("")) }

\* ----------------------------------------------------------------- state
VARIABLES
  selectedFile,   \* useState<File | null>
  apiKey,         \* useState('')
  settings,       \* useState<QuizSettingsData>
  isGenerating,   \* useState(false)
  inv,            \* the generateQuiz calls: slot -> the call's locals and position
  xfile, ximpl,   \* extractTextFromFile taken alone: its argument, the module version
  xpc,            \* "start", "reading" (a reader was called), "settled"
  xreaders,       \* the readers called, in order
  xthrown,        \* what was thrown inside the try block ("" when nothing)
  xresult         \* the settled promise

uiVars == <<selectedFile, apiKey, settings, isGenerating, inv>>
xVars == <<xfile, ximpl, xpc, xreaders, xthrown, xresult>>
vars == <<selectedFile, apiKey, settings, isGenerating, inv,
          xfile, ximpl, xpc, xreaders, xthrown, xresult>>

Slots == 1..MaxInFlight

\* The module the component imports: '@/utils/fileProcessor'
DeployedImpl == "pdflib"

IdleCall ==
  [pc |-> "idle", file |-> NoFile, text |-> <<>>, requests |-> 0, status |-> 0,
   bodyRead |-> FALSE, data |-> JUndefined, parts |-> NoParts, steps |-> <<>>,
   error |-> "", delivered |-> JUndefined, called |-> FALSE]

InFlight == {i \in Slots : inv[i].pc \notin {"idle", "done"}}

\* isReadyToGenerate
isReadyToGenerate ==
  /\ selectedFile # NoFile
  /\ Trim(apiKey) # <<>>
  /\ settings.questionCount # 0
  /\ settings.difficulty # ""
  /\ settings.questionType # ""

\* <Button disabled={!isReadyToGenerate || isGenerating}>
GenerateDisabledNotReadyOnly == ~isReadyToGenerate

GenerateDisabled == ~isReadyToGenerate \/ isGenerating

\* catch (error) { toast(...) }: the call ends with the error shown.
CaughtRetrying(call, msg) ==
  IF call.pc = "fetching"
  THEN [call EXCEPT !.requests = @ + 1, !.steps = Append(@, "fetch")]
  ELSE [call EXCEPT !.pc = "done", !.error = msg]

Caught(call, msg) == [call EXCEPT !.pc = "done", !.error = msg]

\* finally { setIsGenerating(false) }
Finally(call, flag) == IF call.pc = "done" THEN FALSE ELSE flag

Init ==
  /\ selectedFile = NoFile
  /\ apiKey = <<>>
  /\ settings = DefaultSettings
  /\ isGenerating = FALSE
  /\ inv = [i \in Slots |-> IdleCall]
  /\ xfile = NoFile /\ ximpl = DeployedImpl /\ xpc = "settled"
  /\ xreaders = <<>> /\ xthrown = "" /\ xresult = Ok(<<>>)

\* onFileSelect={setSelectedFile}
SelectFile ==
  /\ \E f \in UiFiles : selectedFile' = f
  /\ UNCHANGED <<apiKey, settings, isGenerating, inv, xVars>>

\* onClearFile={() => setSelectedFile(null)}
ClearFile ==
  /\ selectedFile # NoFile
  /\ selectedFile' = NoFile
  /\ UNCHANGED <<apiKey, settings, isGenerating, inv, xVars>>

\* onChange={(e) => setApiKey(e.target.value)}
SetApiKey ==
  /\ \E k \in ApiKeys : apiKey' = k
  /\ UNCHANGED <<selectedFile, settings, isGenerating, inv, xVars>>

\* onSettingsChange={setSettings}
SetSettings ==
  /\ \E c \in SettingsChoices : settings' = c
  /\ UNCHANGED <<selectedFile, apiKey, isGenerating, inv, xVars>>

\* onClick={generateQuiz}, up to the first await: the guard, the flag, and
\* the call of extractTextFromFile(selectedFile!).  The click reaches the
\* handler only through the button, which is rendered with the state as the
\* previous handler left it (React flushes a click handler's updates before
\* the next event is dispatched).
ClickGenerate ==
  /\ ~GenerateDisabled
  /\ isReadyToGenerate
  /\ \E i \in Slots :
       /\ inv[i].pc \in {"idle", "done"}
       /\ \A j \in Slots : j < i => inv[j].pc \notin {"idle", "done"}
       /\ inv' = [inv EXCEPT ![i] = [IdleCall EXCEPT !.pc = "extracting",
                                                     !.file = selectedFile,
                                                     !.steps = <<"extract">>]]
  /\ isGenerating' = TRUE
  /\ UNCHANGED <<selectedFile, apiKey, settings, xVars>>

\* extractTextFromFile settles: the empty-text check, the prompt, fetch(...).
ExtractionSettles(i) ==
  /\ inv[i].pc = "extracting"
  /\ LET call == inv[i]
         r == extractTextFromFile(call.file, DeployedImpl)
         next ==
           IF ~r.ok THEN Caught(call, r.error)
           ELSE IF IsEmptyText(r.text)
           THEN Caught([call EXCEPT !.text = r.text, !.steps = Append(@, "empty")],
                       "No text could be extracted from the file")
           ELSE [call EXCEPT !.pc = "fetching", !.text = r.text,
                             !.requests = @ + 1,
                             !.steps = @ \o <<"empty", "fetch">>]
     IN /\ inv' = [inv EXCEPT ![i] = next]
        /\ isGenerating' = Finally(next, isGenerating)
  /\ UNCHANGED <<selectedFile, apiKey, settings, xVars>>

\* fetch rejects (no connection)
FetchRejects(i) ==
  /\ inv[i].pc = "fetching"
  /\ LET next == Caught(inv[i], "Failed to fetch")
     IN /\ inv' = [inv EXCEPT ![i] = next]
        /\ isGenerating' = Finally(next, isGenerating)
  /\ UNCHANGED <<selectedFile, apiKey, settings, xVars>>

\* fetch resolves: the status check, then response.json()
FetchResolves(i) ==
  /\ inv[i].pc = "fetching"
  /\ \E status \in Statuses :
       LET call == [inv[i] EXCEPT !.status = status, !.steps = Append(@, "status")]
           next ==
             IF ~ResponseOk(status) THEN Caught(call, ApiErrorMessage(status))
             ELSE [call EXCEPT !.pc = "reading", !.bodyRead = TRUE,
                               !.steps = Append(@, "json")]
       IN /\ inv' = [inv EXCEPT ![i] = next]
          /\ isGenerating' = Finally(next, isGenerating)
  /\ UNCHANGED <<selectedFile, apiKey, settings, xVars>>

\* response.json() rejects: the body is no JSON
JsonRejects(i) ==
  /\ inv[i].pc = "reading"
  /\ LET next == Caught(inv[i], "SyntaxError")
     IN /\ inv' = [inv EXCEPT ![i] = next]
        /\ isGenerating' = Finally(next, isGenerating)
  /\ UNCHANGED <<selectedFile, apiKey, settings, xVars>>

\* response.json() resolves: the rest of the try block
JsonResolves(i) ==
  /\ inv[i].pc = "reading"
  /\ \E body \in ([data : TextlessEnvelopes, parts : {NoParts}]
                  \cup [data : {ReplyEnvelope}, parts : ReplyParts]) :
       LET out == HandleData(body.data, ReplyText(body.parts))
           call == [inv[i] EXCEPT !.data = body.data, !.parts = body.parts,
                                  !.steps = @ \o out.steps,
                                  !.delivered = out.delivered,
                                  !.called = out.called]
           next == IF out.error # "" THEN Caught(call, out.error)
                   ELSE [call EXCEPT !.pc = "done"]
       IN /\ inv' = [inv EXCEPT ![i] = next]
          /\ isGenerating' = Finally(next, isGenerating)
  /\ UNCHANGED <<selectedFile, apiKey, settings, xVars>>

Step(i) ==
  \/ ExtractionSettles(i)
  \/ FetchRejects(i)
  \/ FetchResolves(i)
  \/ JsonRejects(i)
  \/ JsonResolves(i)

Next ==
  \/ SelectFile
  \/ ClearFile
  \/ SetApiKey
  \/ SetSettings
  \/ ClickGenerate
  \/ \E i \in Slots : Step(i)

Spec == Init /\ [][Next]_vars

\* ------------------------------------------- extractTextFromFile alone
XInit ==
  /\ selectedFile = NoFile
  /\ apiKey = <<>>
  /\ settings = DefaultSettings
  /\ isGenerating = FALSE
  /\ inv = [i \in Slots |-> IdleCall]
  /\ xfile \in XFiles
  /\ ximpl \in Impls
  /\ xpc = "start"
  /\ xreaders = <<>>
  /\ xthrown = ""
  /\ xresult = Ok(<<>>)

\* The if / else-if chain: a reader is called, or the else branch throws and
\* the catch block rejects.
XDispatch ==
  /\ xpc = "start"
  /\ LET reader == SelectReader(xfile.type, ToLowerCase(xfile.name))
     IN IF reader = "NONE"
        THEN /\ xthrown' = UnsupportedMessage(xfile.type)
             /\ xresult' = CatchExtract(UnsupportedMessage(xfile.type))
             /\ xpc' = "settled"
             /\ UNCHANGED xreaders
        ELSE /\ xreaders' = Append(xreaders, reader)
             /\ xpc' = "reading"
             /\ UNCHANGED <<xthrown, xresult>>
  /\ UNCHANGED <<uiVars, xfile, ximpl>>

\* The reader called settles: its text is returned, its error is caught.
XReaderSettles ==
  /\ xpc = "reading"
  /\ LET r == RunReader(xreaders[Len(xreaders)], xfile, ximpl)
     IN IF r.ok
        THEN xresult' = r /\ UNCHANGED xthrown
        ELSE xthrown' = r.error /\ xresult' = CatchExtract(r.error)
  /\ xpc' = "settled"
  /\ UNCHANGED <<uiVars, xfile, ximpl, xreaders>>

XNext == XDispatch \/ XReaderSettles

SpecExtract == XInit /\ [][XNext]_vars

\* ============================================================== claims
Formats == {"PDF", "DOCX", "TXT"}
MimeOf(fmt) == CASE fmt = "PDF" -> PdfMime [] fmt = "DOCX" -> DocxMime [] OTHER -> TxtMime
SuffixOf(fmt) == CASE fmt = "PDF" -> DotPdf [] fmt = "DOCX" -> DotDocx [] OTHER -> DotTxt
Rank(fmt) == CASE fmt = "PDF" -> 1 [] fmt = "DOCX" -> 2 [] OTHER -> 3

\* the format the lowercased name's suffix names, if any
SuffixFormats(file) ==
  {fmt \in Formats : EndsWith(ToLowerCase(file.name), SuffixOf(fmt))}
\* the format the declared MIME type names, if any
MimeFormats(file) == {fmt \in Formats : file.type = MimeOf(fmt)}

First(fmts) == CHOOSE f \in fmts : \A g \in fmts : Rank(f) <= Rank(g)

IsUnsupportedFile(file) == MimeFormats(file) = {} /\ SuffixFormats(file) = {}

\* C1: a file whose MIME type is none of the three supported ones and whose
\* lowercased name ends in none of .pdf, .docx, .txt is rejected with an
\* UnsupportedType error the caller can tell from an ExtractionFailure (the
\* error a failing reader ends in), and no reader is called for it.
C1_UnsupportedTypeIsDistinct ==
  (xpc = "settled" /\ IsUnsupportedFile(xfile)) =>
     /\ ~xresult.ok
     /\ xreaders = <<>>
     /\ xresult.error # ExtractFailedMessage

\* C2 as stated: the reader is chosen by the declared MIME type when it is a
\* supported one, and by the suffix only otherwise; one reader per supported pair.
C2_MimeTypeDecidesFirst ==
  xpc # "start" =>
     xreaders = (IF MimeFormats(xfile) # {} THEN <<First(MimeFormats(xfile))>>
                 ELSE IF SuffixFormats(xfile) # {} THEN <<First(SuffixFormats(xfile))>>
                 ELSE <<>>)

\* C2 as amended: the reader is that of the first format, in the order PDF,
\* DOCX, TXT, that the MIME type or the lowercased suffix names (so a .pdf
\* name wins over text/plain); exactly one reader is called for every
\* supported pair and none for an unsupported one.
C2_FirstNamedFormatDecides ==
  xpc # "start" =>
     LET named == MimeFormats(xfile) \cup SuffixFormats(xfile)
     IN xreaders = (IF named = {} THEN <<>> ELSE <<First(named)>>)

C2_Witness ==
  /\ xpc = "settled"
  /\ xfile.type = TxtMime
  /\ SuffixFormats(xfile) = {"PDF"}
  /\ xreaders = <<"PDF">>

NoOuterWhiteSpace(t) ==
  t = <<>> \/ (t[1] \notin WhiteSpace /\ t[Len(t)] \notin WhiteSpace)

PageTexts(file) == [i \in 1..Len(file.pages) |-> Join(file.pages[i], <<" ">>)]

\* C9: the text extractTextFromFile returns has no white space at either
\* end, whatever the format, and for a PDF it is the pages' texts in page
\* order, each the page's items joined by single spaces, a newline between
\* consecutive pages (trimmed).
C9_TrimmedPageTexts ==
  (xpc = "settled" /\ xresult.ok) =>
     /\ NoOuterWhiteSpace(xresult.text)
     /\ xreaders = <<"PDF">> => xresult.text = Trim(Join(PageTexts(xfile), <<"\n">>))

\* What C9 says, of the pdfjs-dist versions of the module only.
PdfJsVersionsReturnPageTexts ==
  ximpl # "pdflib" => C9_TrimmedPageTexts

\* What C9 says of every version: the result is trimmed.
EveryVersionTrims ==
  (xpc = "settled" /\ xresult.ok) => NoOuterWhiteSpace(xresult.text)

\* ------------------------------------------------ claims of generateQuiz
Has(steps, x) == \E k \in 1..Len(steps) : steps[k] = x
LastOf(steps) == steps[Len(steps)]

IsNonEmptyString(v) == v.t = "string" /\ v.s # ""

\* The Question shape of the data model
FullQuestionShape(q) ==
  /\ q.t = "object"
  /\ IsNonEmptyString(GetProp(q, "question"))
  /\ GetProp(q, "options").t = "array"
  /\ Len(GetProp(q, "options").items) = 4
  /\ \A k \in 1..Len(GetProp(q, "options").items) :
        GetProp(q, "options").items[k].t = "string"
  /\ GetProp(q, "correctAnswerIndex").t = "number"
  /\ GetProp(q, "correctAnswerIndex").n \in 0..3
  /\ IsNonEmptyString(GetProp(q, "hint"))

EmptyInputError == "No text could be extracted from the file"
ValidationErrors ==
  {"No valid questions generated", "Generated questions have invalid format", "TypeError"}
MalformedErrors ==
  {"No response from AI", "Invalid response format from AI", "SyntaxError", "TypeError"}

\* The text from its first "[" to its last "]", when the one precedes the other
HasArrayPattern(text) ==
  \E i, j \in 1..Len(text) : i < j /\ text[i] = LBracket /\ text[j] = RBracket

ArraySubstring(text) ==
  LET i == CHOOSE a \in 1..Len(text) :
             text[a] = LBracket /\ \A b \in 1..(a - 1) : text[b] # LBracket
      j == CHOOSE a \in 1..Len(text) :
             text[a] = RBracket /\ \A b \in (a + 1)..Len(text) : text[b] # RBracket
  IN SubSeq(text, i, j)

\* The call read a reply text (a non-empty text field) and has ended
ReadReply(call) == call.pc = "done" /\ call.data = ReplyEnvelope

\* C3: every question handed to onQuizGenerated has the full Question shape,
\* and a parsed batch with any element that has not is rejected whole, with a
\* validation error and without onQuizGenerated being called.
C3_DeliveredQuestionsHaveFullShape ==
  \A i \in Slots :
    LET call == inv[i]
        text == ReplyText(call.parts)
    IN /\ call.called =>
            \A k \in 1..Len(call.delivered.items) :
               FullQuestionShape(call.delivered.items[k])
       /\ (/\ ReadReply(call)
           /\ HasArrayPattern(text)
           /\ JSONParse(ArraySubstring(text)).ok
           /\ \E k \in 1..Len(JSONParse(ArraySubstring(text)).val.items) :
                 ~FullQuestionShape(JSONParse(ArraySubstring(text)).val.items[k]))
          => (~call.called /\ call.error \in ValidationErrors)

AllWhiteSpace(t) == \A k \in 1..Len(t) : t[k] \in WhiteSpace

\* C4: when the extracted text is empty or only white space the call fails
\* with the empty-input error and has issued no request.
C4_EmptyTextNoRequest ==
  \A i \in Slots :
    LET call == inv[i]
        r == extractTextFromFile(call.file, DeployedImpl)
    IN (call.pc \notin {"idle", "extracting"} /\ r.ok /\ AllWhiteSpace(r.text)) =>
         /\ call.pc = "done"
         /\ call.error = EmptyInputError
         /\ call.requests = 0
         /\ ~Has(call.steps, "fetch")

C4_Witness ==
  \E i \in Slots :
    /\ inv[i].pc = "done"
    /\ inv[i].file.decoded = <<" ", "\n">>
    /\ inv[i].error = EmptyInputError
    /\ inv[i].requests = 0

\* The body of the reply is the JSON text of batch b, every record of which
\* has the Question shape
IsBatchOfQuestions(body, b) ==
  /\ body = Serialize(JArr(b))
  /\ \A k \in 1..Len(b) : FullQuestionShape(b[k])

\* C5 as stated: a well-formed array of Question records, whatever prose
\* surrounds it, is what the call parses and delivers.  (Stated of the
\* non-empty arrays; the empty one is rejected as holding no question.)
C5_ArrayInAnyProseIsDelivered ==
  \A i \in Slots : \A b \in Batches :
    (ReadReply(inv[i]) /\ IsBatchOfQuestions(inv[i].parts.body, b) /\ b # <<>>) =>
       (inv[i].called /\ inv[i].delivered = JArr(b))

\* C5 as amended: a non-empty well-formed array of Question records is what
\* the call delivers, same records in the same order, when the prose before
\* it holds no "[" and the prose after it no "]": the array is taken from the
\* first "[" to the last "]" of the whole text.
C5_ArrayInBracketFreeProseIsDelivered ==
  \A i \in Slots : \A b \in Batches :
    (/\ ReadReply(inv[i])
     /\ IsBatchOfQuestions(inv[i].parts.body, b)
     /\ b # <<>>
     /\ ~Has(inv[i].parts.pre, LBracket)
     /\ ~Has(inv[i].parts.post, RBracket)) =>
       /\ inv[i].called
       /\ inv[i].error = ""
       /\ inv[i].delivered = JArr(b)

C5_Witness ==
  \E i \in Slots :
    /\ ReadReply(inv[i])
    /\ inv[i].parts = [pre |-> <<RBracket>>, body |-> Serialize(JArr(<<Q3, Q1, Q2>>)),
                       post |-> <<Word("Sure")>>]
    /\ inv[i].called
    /\ inv[i].delivered = JArr(<<Q3, Q1, Q2>>)

\* The check an error comes from
FailedStep(error) ==
  CASE error = ExtractFailedMessage -> {"extract"}
    [] error = EmptyInputError -> {"empty"}
    [] error = "Failed to fetch" -> {"fetch"}
    [] error \in {ApiErrorMessage(st) : st \in Statuses} -> {"status"}
    [] error = "No response from AI" -> {"text"}
    [] error = "Invalid response format from AI" -> {"match"}
    [] error = "SyntaxError" -> {"json", "parse"}
    [] error = "No valid questions generated" -> {"array"}
    [] error = "Generated questions have invalid format" -> {"format"}
    [] OTHER -> {"text", "format"}

\* C6: a call issues at most one request, and its first error ends it: the
\* check that failed is the last one run, nothing was delivered, no request
\* follows, and the ended call changes no more.
C6_OneRequestErrorsTerminal ==
  /\ [](\A i \in Slots :
          /\ inv[i].requests <= 1
          /\ inv[i].error # "" =>
               /\ inv[i].pc = "done"
               /\ ~inv[i].called
               /\ inv[i].delivered = JUndefined
               /\ LastOf(inv[i].steps) \in FailedStep(inv[i].error)
               /\ inv[i].error \in {ExtractFailedMessage, EmptyInputError}
                    => inv[i].requests = 0)
  /\ [][\A i \in Slots :
          (inv[i].error # "" /\ inv'[i].pc # "extracting") => inv'[i] = inv[i]]_vars

C6_Witness ==
  \E i \in Slots :
    /\ inv[i].pc = "done"
    /\ inv[i].error = "Invalid response format from AI"
    /\ inv[i].requests = 1
    /\ inv[i].steps = <<"extract", "empty", "fetch", "status", "json", "text", "match">>

\* C7: on a status outside 200..299 the call fails with the API error that
\* carries the status; the body is not read and nothing is delivered.
C7_NonSuccessStatusFails ==
  \A i \in Slots :
    (inv[i].status # 0 /\ inv[i].status \notin 200..299) =>
       /\ inv[i].pc = "done"
       /\ inv[i].error = "API Error: " \o ToString(inv[i].status)
       /\ ~inv[i].bodyRead
       /\ inv[i].data = JUndefined
       /\ ~inv[i].called

C7_Witness ==
  \E i \in Slots :
    inv[i].status = 304 /\ inv[i].error = "API Error: 304" /\ ~inv[i].bodyRead

\* C8: after a success status the call fails as a malformed response, in
\* this order of checks: no text in the envelope; no "[" ... "]" in the text;
\* the text from the first "[" to the last "]" is no JSON.  In none of the
\* three is the validation run or anything delivered.
C8_MalformedResponseCases ==
  \A i \in Slots :
    LET call == inv[i]
        text == ReplyText(call.parts)
    IN (call.pc = "done" /\ call.bodyRead /\ call.data # JUndefined) =>
         /\ call.data \in TextlessEnvelopes =>
              /\ call.error \in {"No response from AI", "TypeError"}
              /\ LastOf(call.steps) = "text"
         /\ (call.data = ReplyEnvelope /\ ~HasArrayPattern(text)) =>
              /\ call.error = "Invalid response format from AI"
              /\ LastOf(call.steps) = "match"
         /\ (/\ call.data = ReplyEnvelope
             /\ HasArrayPattern(text)
             /\ ~JSONParse(ArraySubstring(text)).ok) =>
              /\ call.error = "SyntaxError"
              /\ LastOf(call.steps) = "parse"
         /\ LastOf(call.steps) \in {"text", "match", "parse"} =>
              /\ call.error \in MalformedErrors
              /\ ~Has(call.steps, "array") /\ ~Has(call.steps, "format")
              /\ ~call.called /\ call.delivered = JUndefined

C8_Witness ==
  \E i \in Slots :
    /\ inv[i].pc = "done"
    /\ inv[i].parts = [pre |-> <<>>, body |-> Serialize(JArr(<<Q1>>)),
                       post |-> <<RBracket>>]
    /\ inv[i].error = "SyntaxError"
    /\ LastOf(inv[i].steps) = "parse"

\* C10: at most one generateQuiz call is in flight, and isGenerating is true
\* exactly while one is: Generate is disabled then, and every way a call ends
\* resets the flag.
C10_OneCallInFlight ==
  /\ Cardinality(InFlight) <= 1
  /\ isGenerating <=> InFlight # {}
  /\ InFlight # {} => GenerateDisabled

C10_Witness ==
  /\ ~isGenerating
  /\ isReadyToGenerate
  /\ \E i \in Slots : inv[i].pc = "done" /\ inv[i].error # "" /\ inv[i].requests = 1

=============================================================================
